---- MODULE Spec2Model ----
(***************************************************************************)
(* Model of the sdk-plugin code generator: classification of GraphQL       *)
(* operations into root / parent / child (operation.ts), synthesis of the  *)
(* generated method of each operation (operation.ts), accumulation of      *)
(* operations by one SdkVisitor per scope (visitor.ts), and the run-time   *)
(* behaviour of the object a generated parent method returns.              *)
(*                                                                         *)
(* Names are strings; JavaScript's undefined is the value Undefined.       *)
(***************************************************************************)
EXTENDS Naturals, Sequences, FiniteSets, TLC

(***************************************************************************)
(* Bounds of the model.                                                    *)
(***************************************************************************)
MaxWords == 2
MaxSelections == 2
MaxTypeDepth == 1
MaxDocuments == 3
MaxArgs == 3
MaxWrappers == 3
MaxCalls == 2

(***************************************************************************)
(* JavaScript values and string primitives.                                *)
(***************************************************************************)
Undefined == "<undefined>"

UpperLetters == "ABCDEFGHIJKLMNOPQRSTUVWXYZ"
LowerLetters == "abcdefghijklmnopqrstuvwxyz"

charAt(str, i) == SubSeq(str, i, i)

toLowerCaseChar(ch) ==
  IF \E i \in 1..Len(UpperLetters) : charAt(UpperLetters, i) = ch
    THEN charAt(LowerLetters, CHOOSE i \in 1..Len(UpperLetters) : charAt(UpperLetters, i) = ch)
    ELSE ch

toUpperCaseChar(ch) ==
  IF \E i \in 1..Len(LowerLetters) : charAt(LowerLetters, i) = ch
    THEN charAt(UpperLetters, CHOOSE i \in 1..Len(LowerLetters) : charAt(LowerLetters, i) = ch)
    ELSE ch

RECURSIVE toLowerCase(_)
toLowerCase(str) ==
  IF str = "" THEN "" ELSE toLowerCaseChar(Head(str)) \o toLowerCase(Tail(str))

\* String.prototype.startsWith
startsWith(str, prefix) ==
  /\ Len(prefix) <= Len(str)
  /\ SubSeq(str, 1, Len(prefix)) = prefix

\* str.replace(new RegExp(`^${key}`, "i"), "") for a key made of name characters
replacePrefixIgnoreCase(str, key) ==
  IF /\ Len(key) <= Len(str)
     /\ toLowerCase(SubSeq(str, 1, Len(key))) = toLowerCase(key)
    THEN SubSeq(str, Len(key) + 1, Len(str))
    ELSE str

\* a value is truthy unless it is undefined or the empty string
truthy(v) == v # Undefined /\ v # ""

upperFirst(str) ==
  IF truthy(str) THEN toUpperCaseChar(charAt(str, 1)) \o SubSeq(str, 2, Len(str)) ELSE ""

lowerFirst(str) ==
  IF truthy(str) THEN toLowerCaseChar(charAt(str, 1)) \o SubSeq(str, 2, Len(str)) ELSE ""

(***************************************************************************)
(* Constants of the generator (constants.ts).                              *)
(***************************************************************************)
ID_NAME == "id"
ID_TYPE == "String"
VARIABLE_NAME == "variables"
OPTIONS_NAME == "options"
OPTIONS_TYPE == "Options"
REQUESTER_NAME == "requester"
REQUESTER_TYPE == "Requester"
WRAPPER_NAME == "wrapper"
WRAPPER_TYPE == "Wrapper"
WRAPPER_DEFAULT_NAME == "defaultWrapper"
RESPONSE_NAME == "response"
RESPONSE_TYPE == "Response"
HANDLER_NAME == "handler"

(***************************************************************************)
(* Type references of the GraphQL AST and the type-name reducer.           *)
(***************************************************************************)
NameNode(value) == [kind |-> "Name", value |-> value]
NamedTypeNode(value) == [kind |-> "NamedType", name |-> NameNode(value)]
NonNullTypeNode(type) == [kind |-> "NonNullType", type |-> type]
ListTypeNode(type) == [kind |-> "ListType", type |-> type]

\* a plain string where a type reference is expected (typeof type === "string")
StringType(value) == [kind |-> "string", value |-> value]

RECURSIVE reduceTypeName(_)
reduceTypeName(type) ==
  IF type.kind = "string" THEN type.value
  ELSE IF type.kind = "NonNullType" THEN reduceTypeName(type.type)
  ELSE IF type.kind = "NamedType" THEN reduceTypeName(type.name)
  ELSE IF type.kind = "Name" THEN reduceTypeName(StringType(type.value))
  ELSE IF type.kind = "ListType" THEN reduceTypeName(type.type)
  ELSE "UNKNOWN_TYPE_NAME"

\* variant: a non-null wrapper is not looked through
reduceListTypeNoUnwrap(type) ==
  IF type.kind = "ListType" THEN reduceTypeName(type.type) ELSE Undefined

RECURSIVE reduceListType(_)
reduceListType(type) ==
  IF type.kind = "string" THEN Undefined
  ELSE IF type.kind = "NonNullType" THEN reduceListType(type.type)
  ELSE IF type.kind = "NamedType" THEN Undefined
  ELSE IF type.kind = "Name" THEN Undefined
  ELSE IF type.kind = "ListType" THEN reduceTypeName(type.type)
  ELSE Undefined

(***************************************************************************)
(* The operation definitions the generator is given.                       *)
(***************************************************************************)
TypeNames == {"String", "Int"}
VariableNames == {"id", "first"}
FieldNames == {"team", "Team"}
Words == {"team", "Team", "Issues"}

RECURSIVE TypeNodes(_)
TypeNodes(depth) ==
  IF depth = 0 THEN {NamedTypeNode(n) : n \in TypeNames}
  ELSE TypeNodes(depth - 1)
         \cup {NonNullTypeNode(t) : t \in {u \in TypeNodes(depth - 1) : u.kind # "NonNullType"}}
         \cup {ListTypeNode(t) : t \in TypeNodes(depth - 1)}

VariableDefinitionNode(name, type, defaultValue) ==
  [kind |-> "VariableDefinition", variable |-> NameNode(name), type |-> type,
   defaultValue |-> defaultValue]

\* the id variable with every type reference; a further variable nullable or
\* required, with or without default value
VariableDefinitionNodes ==
  {VariableDefinitionNode(ID_NAME, t, Undefined) : t \in TypeNodes(MaxTypeDepth)}
    \cup {VariableDefinitionNode(n, t, d) :
            n \in VariableNames \ {ID_NAME},
            t \in {NamedTypeNode("Int"), NonNullTypeNode(NamedTypeNode("Int"))},
            d \in {Undefined, "10"}}

\* sequences of at most max elements of S
SeqsUpTo(S, max) == UNION {[1..n -> S] : n \in 0..max}

\* a document declares each variable name at most once
VariableDefinitionLists ==
  {vs \in SeqsUpTo(VariableDefinitionNodes, Cardinality(VariableNames)) :
     \A i, j \in 1..Len(vs) : vs[i].variable.value = vs[j].variable.value => i = j}

FieldNode(name) == [kind |-> "Field", name |-> NameNode(name)]
FragmentSpreadNode == [kind |-> "FragmentSpread", name |-> NameNode("Fragment")]

SelectionNodes == {FieldNode(f) : f \in FieldNames} \cup {FragmentSpreadNode}

\* a selection set has at least one selection
SelectionLists == SeqsUpTo(SelectionNodes, MaxSelections) \ {<< >>}

RECURSIVE WordsUpTo(_)
WordsUpTo(n) ==
  IF n = 0 THEN {""} ELSE WordsUpTo(n - 1) \cup {s \o w : s \in WordsUpTo(n - 1), w \in Words}

\* the name of an operation; an anonymous operation has none
OperationNames == (WordsUpTo(MaxWords) \ {""}) \cup {Undefined}

OperationDefinitionNode(name, variableDefinitions, selections) ==
  [kind |-> "OperationDefinition", name |-> name,
   variableDefinitions |-> variableDefinitions, selections |-> selections]

OperationDefinitionNodes ==
  {OperationDefinitionNode(n, vs, ss) :
     n \in OperationNames, vs \in VariableDefinitionLists, ss \in SelectionLists}

(***************************************************************************)
(* variable.ts                                                             *)
(***************************************************************************)
isIdVariable(v) ==
  v.variable.value = ID_NAME /\ reduceTypeName(v.type) = ID_TYPE

hasVariable(o, variableName) ==
  \E i \in 1..Len(o.node.variableDefinitions) :
    o.node.variableDefinitions[i].variable.value = variableName

hasOtherVariable(o, variableName) ==
  \E i \in 1..Len(o.node.variableDefinitions) :
    o.node.variableDefinitions[i].variable.value # variableName

hasOptionalVariable(o) ==
  \E i \in 1..Len(o.node.variableDefinitions) :
    \/ o.node.variableDefinitions[i].type.kind # "NonNullType"
    \/ o.node.variableDefinitions[i].defaultValue # Undefined

(***************************************************************************)
(* operation.ts: the operation role classifier.                            *)
(***************************************************************************)
getFirstFieldName(operation) ==
  IF \E i \in 1..Len(operation.selections) : operation.selections[i].kind = "Field"
    THEN LET first == CHOOSE i \in 1..Len(operation.selections) :
                        /\ operation.selections[i].kind = "Field"
                        /\ \A j \in 1..(i - 1) : operation.selections[j].kind # "Field"
         IN operation.selections[first].name.value
    ELSE Undefined

hasIdVariable(o) ==
  \E i \in 1..Len(o.variableDefinitions) : isIdVariable(o.variableDefinitions[i])

getOperationName(o) == o.name

isParentOperation(o) ==
  hasIdVariable(o) /\ getOperationName(o) = getFirstFieldName(o)

isChildOperation(o) ==
  /\ hasIdVariable(o)
  /\ getOperationName(o) # Undefined
  /\ startsWith(getOperationName(o),
                IF getFirstFieldName(o) = Undefined THEN "" ELSE getFirstFieldName(o))

SdkOperationDefinition(operation, chainType, chainKey) ==
  [kind |-> operation.kind, name |-> operation.name,
   variableDefinitions |-> operation.variableDefinitions,
   selections |-> operation.selections,
   chainType |-> chainType, chainKey |-> chainKey]

\* variant: the child check is evaluated before the parent check
processSdkOperationChildFirst(operation) ==
  IF isChildOperation(operation)
    THEN SdkOperationDefinition(operation, "child", getFirstFieldName(operation))
  ELSE IF isParentOperation(operation)
    THEN SdkOperationDefinition(operation, "parent", getFirstFieldName(operation))
  ELSE SdkOperationDefinition(operation, "root", Undefined)

processSdkOperation(operation) ==
  IF isParentOperation(operation)
    THEN SdkOperationDefinition(operation, "parent", getFirstFieldName(operation))
  ELSE IF isChildOperation(operation)
    THEN SdkOperationDefinition(operation, "child", getFirstFieldName(operation))
  ELSE SdkOperationDefinition(operation, "root", Undefined)

(***************************************************************************)
(* print.ts and args.ts                                                    *)
(***************************************************************************)
printOperationName(o) == lowerFirst(o.node.name)

printNamespacedType(type) == "Types." \o type

printNamespacedDocument(document) == "Documents." \o document

printApiFunctionName(chainKey) ==
  IF truthy(chainKey) THEN "createSdk_" \o chainKey ELSE "createSdk"

printApiFunctionType(chainKey) ==
  IF truthy(chainKey) THEN "Sdk_" \o chainKey ELSE "Sdk"

ArgDefinition(name, optional, type, defaultName) ==
  [name |-> name, optional |-> optional, type |-> type, defaultName |-> defaultName]

NoArg == ArgDefinition(Undefined, FALSE, Undefined, Undefined)

\* Array.prototype.filter: the elements s[i] with keep[i], in order
RECURSIVE SelectSeqBy(_, _)
SelectSeqBy(s, keep) ==
  IF s = << >> THEN << >>
  ELSE (IF keep[Len(s)] THEN SelectSeqBy(SubSeq(s, 1, Len(s) - 1), keep) \o <<s[Len(s)]>>
        ELSE SelectSeqBy(SubSeq(s, 1, Len(s) - 1), keep))

\* variant: of two descriptors of one name the earlier is kept
getArgListFirstWins(inputArgs) ==
  LET defined == SelectSeqBy(inputArgs, [i \in 1..Len(inputArgs) |-> inputArgs[i] # NoArg])
      unique == SelectSeqBy(defined,
                  [i \in 1..Len(defined) |->
                     \A j \in 1..(i - 1) : defined[j].name # defined[i].name])
  IN SelectSeqBy(unique, [i \in 1..Len(unique) |-> ~unique[i].optional])
       \o SelectSeqBy(unique, [i \in 1..Len(unique) |-> unique[i].optional])

getArgList(inputArgs) ==
  LET defined == SelectSeqBy(inputArgs, [i \in 1..Len(inputArgs) |-> inputArgs[i] # NoArg])
      unique == SelectSeqBy(defined,
                  [i \in 1..Len(defined) |->
                     \A j \in (i + 1)..Len(defined) : defined[j].name # defined[i].name])
      required == SelectSeqBy(unique, [i \in 1..Len(unique) |-> ~unique[i].optional])
      optional == SelectSeqBy(unique, [i \in 1..Len(unique) |-> unique[i].optional])
  IN required \o optional

(***************************************************************************)
(* visitor.ts: the operation record a visitor keeps for each definition.   *)
(***************************************************************************)
operationBaseName(node) ==
  IF node.name = Undefined THEN "Unnamed" ELSE upperFirst(node.name)

SdkOperation(node) ==
  [node |-> node,
   documentVariableName |-> operationBaseName(node) \o "Document",
   operationType |-> "Query",
   operationResultType |-> operationBaseName(node) \o "Query",
   operationVariablesTypes |-> operationBaseName(node) \o "QueryVariables"]

(***************************************************************************)
(* operation.ts: synthesis of the generated method of one operation.       *)
(***************************************************************************)
getChainParentKey(o) ==
  IF o.node.chainType = "parent" THEN o.node.chainKey ELSE Undefined

getChainChildKey(o) ==
  IF o.node.chainType = "child" THEN o.node.chainKey ELSE Undefined

\* variant: no variables parameter for an operation that declares no variables
getOperationArgsNoneWhenUndeclared(o) ==
  IF hasVariable(o, ID_NAME)
    THEN IF hasOtherVariable(o, ID_NAME)
           THEN (IF truthy(getChainChildKey(o)) THEN << >> ELSE <<ArgDefinition(ID_NAME, FALSE, ID_TYPE, Undefined)>>)
                  \o <<ArgDefinition(VARIABLE_NAME, hasOptionalVariable(o),
                                     "Omit<" \o printNamespacedType(o.operationVariablesTypes)
                                       \o ", '" \o ID_NAME \o "'>", Undefined)>>
           ELSE (IF truthy(getChainChildKey(o)) THEN << >> ELSE <<ArgDefinition(ID_NAME, FALSE, ID_TYPE, Undefined)>>)
    ELSE IF o.node.variableDefinitions = << >> THEN << >>
    ELSE <<ArgDefinition(VARIABLE_NAME, hasOptionalVariable(o),
                         printNamespacedType(o.operationVariablesTypes), Undefined)>>

getOperationArgs(o) ==
  LET idArg == ArgDefinition(ID_NAME, FALSE, ID_TYPE, Undefined)
      variableType == printNamespacedType(o.operationVariablesTypes)
      variablesArg == ArgDefinition(VARIABLE_NAME, hasOptionalVariable(o), variableType, Undefined)
      chainChildKey == getChainChildKey(o)
      variablesWithoutIdArg ==
        ArgDefinition(VARIABLE_NAME, hasOptionalVariable(o),
                      "Omit<" \o variableType \o ", '" \o ID_NAME \o "'>", Undefined)
  IN IF hasVariable(o, ID_NAME)
       THEN IF hasOtherVariable(o, ID_NAME)
              THEN (IF truthy(chainChildKey) THEN <<variablesWithoutIdArg>>
                    ELSE <<idArg, variablesWithoutIdArg>>)
              ELSE (IF truthy(chainChildKey) THEN << >> ELSE <<idArg>>)
       ELSE <<variablesArg>>

getRequesterArgs(o) ==
  IF hasVariable(o, ID_NAME)
    THEN IF hasOtherVariable(o, ID_NAME)
           THEN "{" \o ID_NAME \o ", ..." \o VARIABLE_NAME \o "}"
           ELSE "{" \o ID_NAME \o "}"
    ELSE VARIABLE_NAME

\* the identifiers in the argument of the requester call
RequesterArgIdentifiers(args) ==
  IF args = VARIABLE_NAME THEN {VARIABLE_NAME}
  ELSE IF args = "{" \o ID_NAME \o "}" THEN {ID_NAME}
  ELSE {ID_NAME, VARIABLE_NAME}

getOperationBody(o) ==
  LET callRequester ==
        [wrapper |-> WRAPPER_NAME, handler |-> HANDLER_NAME, requester |-> REQUESTER_NAME,
         resultType |-> printNamespacedType(o.operationResultType),
         variableType |-> printNamespacedType(o.operationVariablesTypes),
         document |-> printNamespacedDocument(o.documentVariableName),
         args |-> getRequesterArgs(o), options |-> OPTIONS_NAME]
      chainParentKey == getChainParentKey(o)
  IN IF truthy(chainParentKey)
       THEN [kind |-> "chain", callRequester |-> callRequester,
             api |-> printApiFunctionName(chainParentKey),
             apiArgs |-> <<ID_NAME, REQUESTER_NAME, WRAPPER_NAME>>]
       ELSE [kind |-> "return", callRequester |-> callRequester,
             api |-> Undefined, apiArgs |-> << >>]

\* variant: the chain key is not removed from the name of a child
getSdkOperationNameKeepPrefix(o) == printOperationName(o)

getSdkOperationName(o) ==
  LET nodeName == printOperationName(o)
      chainChildKey == getChainChildKey(o)
  IN IF truthy(chainChildKey)
       THEN lowerFirst(replacePrefixIgnoreCase(nodeName, chainChildKey))
       ELSE nodeName

getOperationResultType(o) ==
  LET resultType == printNamespacedType(o.operationResultType)
      chainParentKey == getChainParentKey(o)
  IN IF truthy(chainParentKey)
       THEN "Promise<" \o RESPONSE_TYPE \o "<" \o resultType \o "> & "
              \o printApiFunctionType(chainParentKey) \o ">"
       ELSE "Promise<" \o RESPONSE_TYPE \o "<" \o resultType \o ">>"

\* getOperation: the descriptors handed to getArgList
getOperationArgInputs(o) ==
  getOperationArgs(o) \o <<ArgDefinition(OPTIONS_NAME, TRUE, OPTIONS_TYPE, Undefined)>>

getOperation(o) ==
  [name |-> getSdkOperationName(o),
   async |-> truthy(getChainParentKey(o)),
   args |-> getArgList(getOperationArgInputs(o)),
   returnType |-> getOperationResultType(o),
   body |-> getOperationBody(o)]

\* variant: a scoped api function has no id parameter
sdkContentArgInputsNoId(chainKey) ==
  <<NoArg,
    ArgDefinition(REQUESTER_NAME, FALSE, REQUESTER_TYPE \o "<" \o OPTIONS_TYPE \o ">", Undefined),
    ArgDefinition(WRAPPER_NAME, FALSE, WRAPPER_TYPE, WRAPPER_DEFAULT_NAME)>>

\* SdkVisitor.sdkContent: the descriptors handed to getArgList
sdkContentArgInputs(chainKey) ==
  <<IF truthy(chainKey) THEN ArgDefinition(ID_NAME, FALSE, ID_TYPE, Undefined) ELSE NoArg,
    ArgDefinition(REQUESTER_NAME, FALSE, REQUESTER_TYPE \o "<" \o OPTIONS_TYPE \o ">", Undefined),
    ArgDefinition(WRAPPER_NAME, FALSE, WRAPPER_TYPE, WRAPPER_DEFAULT_NAME)>>

(***************************************************************************)
(* State.                                                                  *)
(*   operation, sdkNode, sdkMethod, opPc: one operation definition taken   *)
(*     through processSdkOperation and getOperation;                       *)
(*   documents .. contents, pc: one generation pass over a document set;   *)
(*   calls: the generated code at run time, the calls of generated methods *)
(*     that are in flight or whose outcome is held.                        *)
(***************************************************************************)
VARIABLES operation, sdkNode, sdkMethod, opPc,
          documents, sdkDocuments, visitors, contents, calls, pc,
          argInput, argList, typeSource, typeNode, typeName, listType, utilPc

opVars == <<operation, sdkNode, sdkMethod, opPc>>
passVars == <<documents, sdkDocuments, visitors, contents, calls, pc>>
utilVars == <<argInput, argList, typeSource, typeNode, typeName, listType, utilPc>>
vars == <<operation, sdkNode, sdkMethod, opPc,
          documents, sdkDocuments, visitors, contents, calls, pc,
          argInput, argList, typeSource, typeNode, typeName, listType, utilPc>>

NoNode == [kind |-> "none"]
NoMethod == [kind |-> "none"]
NoRequest == [kind |-> "none"]
NoResponse == [kind |-> "none"]
NoValue == [kind |-> "none"]

\* no argument list is being built, no type reference reduced
UtilIdle ==
  /\ argInput = << >>
  /\ argList = << >>
  /\ typeSource = [kind |-> "none"]
  /\ typeNode = [kind |-> "none"]
  /\ typeName = Undefined
  /\ listType = Undefined
  /\ utilPc = "idle"

PassIdle ==
  /\ documents = << >>
  /\ sdkDocuments = << >>
  /\ visitors = << >>
  /\ contents = << >>
  /\ calls = << >>
  /\ pc = "idle"

(***************************************************************************)
(* One operation definition: classification, then synthesis of its method. *)
(***************************************************************************)
InitOperation ==
  /\ operation \in OperationDefinitionNodes
  /\ sdkNode = NoNode
  /\ sdkMethod = NoMethod
  /\ opPc = "parsed"
  /\ PassIdle
  /\ UtilIdle

ProcessSdkOperation ==
  /\ opPc = "parsed"
  /\ sdkNode' = processSdkOperation(operation)
  /\ opPc' = "classified"
  /\ UNCHANGED <<operation, sdkMethod>>
  /\ UNCHANGED passVars
  /\ UNCHANGED utilVars

GetOperation ==
  /\ opPc = "classified"
  /\ sdkMethod' = getOperation(SdkOperation(sdkNode))
  /\ opPc' = "generated"
  /\ UNCHANGED <<operation, sdkNode>>
  /\ UNCHANGED passVars
  /\ UNCHANGED utilVars

NextOperation == ProcessSdkOperation \/ GetOperation

SpecOperation == InitOperation /\ [][NextOperation]_vars

(***************************************************************************)
(* The operation definitions document sets are made of.                    *)
(***************************************************************************)
IdVariableDefinition ==
  VariableDefinitionNode(ID_NAME, NonNullTypeNode(NamedTypeNode(ID_TYPE)), Undefined)
FirstVariableDefinition == VariableDefinitionNode("first", NamedTypeNode("Int"), Undefined)
\* a variable named id whose type is not the id type
IntIdVariableDefinition ==
  VariableDefinitionNode(ID_NAME, NonNullTypeNode(NamedTypeNode("Int")), Undefined)

\* the operations document sets are made of: each selects a field, so each
\* operation that is not root has a chain key
DocumentOperations ==
  { OperationDefinitionNode("team", <<IdVariableDefinition>>, <<FieldNode("team")>>),
    OperationDefinitionNode("teamIssues", <<IdVariableDefinition, FirstVariableDefinition>>,
                            <<FieldNode("team")>>),
    OperationDefinitionNode("teamdata", <<IdVariableDefinition>>, <<FieldNode("team")>>),
    OperationDefinitionNode("TeamIssues", <<IdVariableDefinition>>, <<FieldNode("team")>>),
    OperationDefinitionNode("issue", <<IdVariableDefinition>>,
                            <<FragmentSpreadNode, FieldNode("issue")>>),
    OperationDefinitionNode("issueTeam", <<IdVariableDefinition>>, <<FieldNode("issue")>>),
    OperationDefinitionNode("teamItems", <<IntIdVariableDefinition, FirstVariableDefinition>>,
                            <<FieldNode("team")>>),
    OperationDefinitionNode("data", << >>, <<FieldNode("issue")>>) }

(***************************************************************************)
(* One argument list built from a list of descriptors.                     *)
(***************************************************************************)
\* the elements of a sequence
Range(s) == {s[i] : i \in 1..Len(s)}

\* the descriptors the generator hands to getArgList: those of the generated
\* methods and those of the api functions, undefined among them
ArgInputs ==
  UNION {Range(getOperationArgInputs(SdkOperation(processSdkOperation(d)))) :
           d \in DocumentOperations}
    \cup Range(sdkContentArgInputs(Undefined))
    \cup UNION {Range(sdkContentArgInputs(getFirstFieldName(d))) : d \in DocumentOperations}

InitArgs ==
  /\ argInput \in SeqsUpTo(ArgInputs, MaxArgs)
  /\ argList = << >>
  /\ typeSource = [kind |-> "none"]
  /\ typeNode = [kind |-> "none"]
  /\ typeName = Undefined
  /\ listType = Undefined
  /\ utilPc = "args"
  /\ operation = NoNode
  /\ sdkNode = NoNode
  /\ sdkMethod = NoMethod
  /\ opPc = "idle"
  /\ PassIdle

GetArgList ==
  /\ utilPc = "args"
  /\ argList' = getArgList(argInput)
  /\ utilPc' = "built"
  /\ UNCHANGED <<argInput, typeSource, typeNode, typeName, listType>>
  /\ UNCHANGED opVars
  /\ UNCHANGED passVars

NextArgs == GetArgList

SpecArgs == InitArgs /\ [][NextArgs]_vars

(***************************************************************************)
(* One type reference reduced to its name and to its list element name.    *)
(***************************************************************************)
\* a node of a kind the reducers do not know
UnknownNode == [kind |-> "Unknown"]

\* how a value given to the reducers is made: a string, a name node, a named
\* type or a node of unknown kind, inside wrappers listed outermost first
TypeSources ==
  [name : TypeNames,
   form : {"string", "Name", "NamedType", "Unknown"},
   wrappers : SeqsUpTo({"NonNullType", "ListType"}, MaxWrappers)]

RECURSIVE wrapType(_, _)
wrapType(wrappers, type) ==
  IF wrappers = << >> THEN type
  ELSE IF Head(wrappers) = "NonNullType" THEN NonNullTypeNode(wrapType(Tail(wrappers), type))
  ELSE ListTypeNode(wrapType(Tail(wrappers), type))

buildType(source) ==
  wrapType(source.wrappers,
           IF source.form = "string" THEN StringType(source.name)
           ELSE IF source.form = "Name" THEN NameNode(source.name)
           ELSE IF source.form = "NamedType" THEN NamedTypeNode(source.name)
           ELSE UnknownNode)

InitTypes ==
  /\ typeSource \in TypeSources
  /\ typeNode = buildType(typeSource)
  /\ typeName = Undefined
  /\ listType = Undefined
  /\ utilPc = "type"
  /\ argInput = << >>
  /\ argList = << >>
  /\ operation = NoNode
  /\ sdkNode = NoNode
  /\ sdkMethod = NoMethod
  /\ opPc = "idle"
  /\ PassIdle

ReduceTypeName ==
  /\ utilPc = "type"
  /\ typeName' = reduceTypeName(typeNode)
  /\ utilPc' = "named"
  /\ UNCHANGED <<argInput, argList, typeSource, typeNode, listType>>
  /\ UNCHANGED opVars
  /\ UNCHANGED passVars

ReduceListType ==
  /\ utilPc = "named"
  /\ listType' = reduceListType(typeNode)
  /\ utilPc' = "reduced"
  /\ UNCHANGED <<argInput, argList, typeSource, typeNode, typeName>>
  /\ UNCHANGED opVars
  /\ UNCHANGED passVars

NextTypes == ReduceTypeName \/ ReduceListType

SpecTypes == InitTypes /\ [][NextTypes]_vars

(***************************************************************************)
(* One generation pass over a document set.                                *)
(***************************************************************************)
\* a document set names each of its operations once
DocumentSets ==
  {ds \in SeqsUpTo(DocumentOperations, MaxDocuments) :
     \A i, j \in 1..Len(ds) : ds[i].name = ds[j].name => i = j}

\* the distinct elements of a sequence, in order of first occurrence
RECURSIVE uniq(_)
uniq(s) ==
  IF s = << >> THEN << >>
  ELSE LET rest == uniq(SubSeq(s, 1, Len(s) - 1))
       IN IF \E i \in 1..Len(rest) : rest[i] = s[Len(s)] THEN rest ELSE rest \o <<s[Len(s)]>>

\* plugin: the chain keys found among the parent and child operations
getChainKeys(nodes) ==
  LET keys == [i \in 1..Len(nodes) |-> nodes[i].chainKey]
  IN uniq(SelectSeqBy(keys, [i \in 1..Len(nodes) |->
                               nodes[i].chainType # "root" /\ truthy(nodes[i].chainKey)]))

\* plugin: the operations handed to the visitor of one scope: a child goes
\* to the visitor of its chain key, a parent and a root operation to the root
\* visitor
getScopeDocuments(nodes, chainKey) ==
  SelectSeqBy(nodes, [i \in 1..Len(nodes) |->
                        IF truthy(chainKey)
                          THEN nodes[i].chainType = "child" /\ nodes[i].chainKey = chainKey
                          ELSE nodes[i].chainType \in {"root", "parent"}])

\* variant: every visitor takes the name of the root api
NewSdkVisitorRootName(chainKey) ==
  [_chainKey |-> chainKey,
   _apiName |-> printApiFunctionName(Undefined),
   _apiType |-> printApiFunctionType(Undefined),
   _operationsToInclude |-> << >>]

\* SdkVisitor constructor
NewSdkVisitor(chainKey) ==
  [_chainKey |-> chainKey,
   _apiName |-> printApiFunctionName(chainKey),
   _apiType |-> printApiFunctionType(chainKey),
   _operationsToInclude |-> << >>]

\* variant: an operation is recorded only when it creates or joins a chain
buildOperationChainedOnly(visitor, node) ==
  IF node.chainType = "root" THEN visitor
  ELSE [visitor EXCEPT !._operationsToInclude = Append(@, SdkOperation(node))]

\* SdkVisitor.buildOperation
buildOperation(visitor, node) ==
  [visitor EXCEPT !._operationsToInclude = Append(@, SdkOperation(node))]

\* visit(ast, { leave: visitor }): buildOperation for each definition in turn
RECURSIVE visit(_, _)
visit(documentNodes, visitor) ==
  IF documentNodes = << >> THEN visitor
  ELSE buildOperation(visit(SubSeq(documentNodes, 1, Len(documentNodes) - 1), visitor),
                      documentNodes[Len(documentNodes)])

createVisitor(documentNodes, chainKey) == visit(documentNodes, NewSdkVisitor(chainKey))

\* SdkVisitor.sdkContent
sdkContent(visitor) ==
  [name |-> visitor._apiName,
   type |-> visitor._apiType,
   args |-> getArgList(sdkContentArgInputs(visitor._chainKey)),
   operations |-> [i \in 1..Len(visitor._operationsToInclude) |->
                     getOperation(visitor._operationsToInclude[i])]]

(***************************************************************************)
(* The generated code at run time.  An object maps property names to       *)
(* values; an environment maps the identifiers in scope to the values they *)
(* denote; a method of an api closes over the parameters of the api        *)
(* function that created it.                                               *)
(***************************************************************************)
PlainValue(v) == [kind |-> "value", value |-> v]

EmptyObject == [k \in {} |-> PlainValue(Undefined)]

\* what evaluating an identifier that is not in scope throws
ReferenceError == [kind |-> "ReferenceError", fields |-> EmptyObject]

\* what calling a value that is not a function throws
TypeError == [kind |-> "TypeError", fields |-> EmptyObject]

\* { ...a, ...b }
spread(a, b) ==
  [k \in (DOMAIN a) \cup (DOMAIN b) |-> IF k \in DOMAIN b THEN b[k] ELSE a[k]]

responseObject(response) ==
  [k \in {"status", "data", "error"} |->
     PlainValue(IF k = "status" THEN response.status
                ELSE IF k = "data" THEN response.data ELSE response.error)]

\* evaluation of an identifier: the value it denotes, a ReferenceError when
\* it is not in scope
lookup(env, name) == IF name \in DOMAIN env THEN PlainValue(env[name]) ELSE ReferenceError

\* binding of the parameters of a function to the values it is called with:
\* a parameter that gets no value, or undefined, takes its default if it has one
bind(args, values) ==
  [name \in {args[i].name : i \in 1..Len(args)} |->
     LET i == CHOOSE j \in 1..Len(args) :
                /\ args[j].name = name
                /\ \A l \in (j + 1)..Len(args) : args[l].name # name
         given == IF i <= Len(values) THEN values[i] ELSE Undefined
     IN IF given # Undefined THEN given
        ELSE IF args[i].defaultName # Undefined THEN args[i].defaultName
        ELSE Undefined]

\* the object an api function returns: one method per emitted entry, a later
\* entry of the same name replacing an earlier one; each method keeps the
\* scope it was created in
apiObject(content, env) ==
  [name \in {content.operations[i].name : i \in 1..Len(content.operations)} |->
     LET last == CHOOSE i \in 1..Len(content.operations) :
                   /\ content.operations[i].name = name
                   /\ \A j \in (i + 1)..Len(content.operations) :
                        content.operations[j].name # name
     IN [kind |-> "method", method |-> content.operations[last],
         document |-> content.operations[last].body.callRequester.document,
         env |-> env]]

\* the transport call of a generated body: the request handed to the
\* requester, or what evaluating the call throws
callRequester(method, env) ==
  LET call == method.body.callRequester
      used == RequesterArgIdentifiers(call.args)
                \cup {call.requester, call.wrapper, call.options}
  IN IF \E name \in used : lookup(env, name) = ReferenceError THEN ReferenceError
     ELSE IF env[call.wrapper] = Undefined \/ env[call.requester] = Undefined THEN TypeError
     ELSE [kind |-> "request", document |-> call.document,
           variables |->
             IF call.args = VARIABLE_NAME THEN PlainValue(env[VARIABLE_NAME])
             ELSE IF call.args = "{" \o ID_NAME \o "}"
               THEN [kind |-> "object", id |-> env[ID_NAME], rest |-> Undefined]
             ELSE [kind |-> "object", id |-> env[ID_NAME], rest |-> env[VARIABLE_NAME]],
           options |-> env[call.options]]

\* the rest of a parent body once the response is there:
\* { ...response, ...api(id, requester, wrapper) }
callApi(method, env, response, apis) ==
  IF \A i \in 1..Len(apis) : apis[i].name # method.body.api THEN ReferenceError
  ELSE IF \E i \in 1..Len(method.body.apiArgs) :
            lookup(env, method.body.apiArgs[i]) = ReferenceError THEN ReferenceError
  ELSE LET api == apis[CHOOSE i \in 1..Len(apis) : apis[i].name = method.body.api]
           values == [i \in 1..Len(method.body.apiArgs) |-> env[method.body.apiArgs[i]]]
       IN [kind |-> "object",
           fields |-> spread(responseObject(response),
                             apiObject(api, bind(api.args, values)))]

\* the value a generated method resolves to, or what it throws
callMethod(method, env, response, apis) ==
  LET request == callRequester(method, env)
  IN IF request.kind # "request" THEN request
     ELSE IF method.body.kind = "chain" THEN callApi(method, env, response, apis)
     ELSE [kind |-> "object", fields |-> responseObject(response)]

Init ==
  /\ documents \in DocumentSets
  /\ sdkDocuments = << >>
  /\ visitors = << >>
  /\ contents = << >>
  /\ calls = << >>
  /\ pc = "process"
  /\ operation = NoNode
  /\ sdkNode = NoNode
  /\ sdkMethod = NoMethod
  /\ opPc = "idle"
  /\ UtilIdle

\* plugin: the next operation definition is classified
ProcessSdkDocument ==
  /\ pc = "process"
  /\ Len(sdkDocuments) < Len(documents)
  /\ sdkDocuments' = Append(sdkDocuments, processSdkOperation(documents[Len(sdkDocuments) + 1]))
  /\ UNCHANGED <<documents, visitors, contents, calls, pc>>
  /\ UNCHANGED opVars
  /\ UNCHANGED utilVars

\* the scopes of the pass: root first, then one per chain key
Scopes == <<Undefined>> \o getChainKeys(sdkDocuments)

\* plugin: the visitor of the next scope is created and run over its operations
CreateVisitor ==
  /\ pc \in {"process", "visit"}
  /\ Len(sdkDocuments) = Len(documents)
  /\ Len(visitors) < Len(Scopes)
  /\ LET chainKey == Scopes[Len(visitors) + 1]
     IN visitors' = Append(visitors,
                           createVisitor(getScopeDocuments(sdkDocuments, chainKey), chainKey))
  /\ pc' = "visit"
  /\ UNCHANGED <<documents, sdkDocuments, contents, calls>>
  /\ UNCHANGED opVars
  /\ UNCHANGED utilVars

\* plugin: the content of the next visitor is generated
SdkContent ==
  /\ pc \in {"visit", "content"}
  /\ Len(visitors) = Len(Scopes)
  /\ Len(contents) < Len(visitors)
  /\ contents' = Append(contents, sdkContent(visitors[Len(contents) + 1]))
  /\ pc' = "content"
  /\ UNCHANGED <<documents, sdkDocuments, visitors, calls>>
  /\ UNCHANGED opVars
  /\ UNCHANGED utilVars

Next == ProcessSdkDocument \/ CreateVisitor \/ SdkContent

Spec == Init /\ [][Next]_vars

(***************************************************************************)
(* The generated code of a document set at run time: the methods of the    *)
(* api objects the exported api functions return, and of the objects the   *)
(* parent methods resolve to, are called; a call is in flight until the    *)
(* transport has resolved and, for a parent method, until the rest of its  *)
(* body has run.                                                           *)
(***************************************************************************)
processSdkDocuments(ds) == [i \in 1..Len(ds) |-> processSdkOperation(ds[i])]

createVisitors(nodes) ==
  LET scopes == <<Undefined>> \o getChainKeys(nodes)
  IN [v \in 1..Len(scopes) |->
        createVisitor(getScopeDocuments(nodes, scopes[v]), scopes[v])]

sdkContents(vs) == [c \in 1..Len(vs) |-> sdkContent(vs[c])]

DocumentOperation(name) == CHOOSE d \in DocumentOperations : d.name = name

\* the document sets whose generated code is run
RunDocumentSets ==
  { <<DocumentOperation("team"), DocumentOperation("teamIssues"),
      DocumentOperation("issue"), DocumentOperation("issueTeam")>>,
    <<DocumentOperation("team"), DocumentOperation("teamdata")>>,
    <<DocumentOperation("data"), DocumentOperation("TeamIssues")>>,
    <<DocumentOperation("teamItems"), DocumentOperation("team")>> }

\* run-time values handed to the generated code
IdValues == {"someTeamId", "someIssueId"}
VariablesValues == {Undefined, "someVariables"}
RequesterValue == "theRequester"
WrapperValue == "theWrapper"
Responses ==
  { [status |-> "success", data |-> "payload", error |-> Undefined],
    [status |-> "error", data |-> Undefined, error |-> "failure"] }

\* a call of a method with positional argument values: the transport call is
\* made, or the call throws
Call(methodValue, values) ==
  LET env == spread(methodValue.env, bind(methodValue.method.args, values))
      request == callRequester(methodValue.method, env)
  IN [method |-> methodValue.method, env |-> env,
      state |-> IF request.kind = "request" THEN "pending" ELSE "thrown",
      request |-> IF request.kind = "request" THEN request ELSE NoRequest,
      response |-> NoResponse,
      value |-> IF request.kind = "request" THEN NoValue ELSE request]

\* the argument values of a call: an id for an id parameter, variables or
\* nothing for a variables parameter, no options
CallValues(method) ==
  {[i \in 1..Len(method.args) |->
      IF method.args[i].name = ID_NAME THEN idValue
      ELSE IF method.args[i].name = VARIABLE_NAME THEN variablesValue
      ELSE Undefined] :
     idValue \in (IF ID_NAME \in {method.args[i].name : i \in 1..Len(method.args)}
                    THEN IdValues ELSE {Undefined}),
     variablesValue \in (IF VARIABLE_NAME \in {method.args[i].name : i \in 1..Len(method.args)}
                           THEN VariablesValues ELSE {Undefined})}

\* the methods of an object
Methods(object) == {name \in DOMAIN object.fields : object.fields[name].kind = "method"}

InitRun ==
  /\ documents \in RunDocumentSets
  /\ sdkDocuments = processSdkDocuments(documents)
  /\ visitors = createVisitors(sdkDocuments)
  /\ contents = sdkContents(visitors)
  /\ calls = << >>
  /\ pc = "content"
  /\ operation = NoNode
  /\ sdkNode = NoNode
  /\ sdkMethod = NoMethod
  /\ opPc = "idle"
  /\ UtilIdle

\* the argument values of a call of an exported api function: an id for an
\* id parameter, the requester, a wrapper or none
ApiValues(content) ==
  {[i \in 1..Len(content.args) |->
      IF content.args[i].name = ID_NAME THEN idValue
      ELSE IF content.args[i].name = REQUESTER_NAME THEN RequesterValue
      ELSE wrapperValue] :
     idValue \in (IF ID_NAME \in {content.args[i].name : i \in 1..Len(content.args)}
                    THEN IdValues ELSE {Undefined}),
     wrapperValue \in {Undefined, WrapperValue}}

\* the object an exported api function, the root one or a scoped one, returns
createSdk(content, values) ==
  [kind |-> "object", fields |-> apiObject(content, bind(content.args, values))]

\* an exported api function is called and a method of the api object it
\* returns is called
CallApiMethod ==
  /\ pc = "content"
  /\ Len(calls) < MaxCalls
  /\ \E c \in 1..Len(contents) : \E apiValues \in ApiValues(contents[c]) :
       LET api == createSdk(contents[c], apiValues)
       IN \E name \in Methods(api) : \E values \in CallValues(api.fields[name].method) :
            calls' = Append(calls, Call(api.fields[name], values))
  /\ UNCHANGED <<documents, sdkDocuments, visitors, contents, pc>>
  /\ UNCHANGED opVars
  /\ UNCHANGED utilVars

\* a method of the object a parent method resolved to is called
CallChainedMethod ==
  /\ Len(calls) < MaxCalls
  /\ \E k \in 1..Len(calls) :
       /\ calls[k].state = "returned"
       /\ \E name \in Methods(calls[k].value) :
            \E values \in CallValues(calls[k].value.fields[name].method) :
              calls' = Append(calls, Call(calls[k].value.fields[name], values))
  /\ UNCHANGED <<documents, sdkDocuments, visitors, contents, pc>>
  /\ UNCHANGED opVars
  /\ UNCHANGED utilVars

\* the transport resolves a call in flight with a response; a method that
\* returns the transport call resolves to the response
ResolveTransport ==
  /\ \E k \in 1..Len(calls), response \in Responses :
       /\ calls[k].state = "pending"
       /\ LET call == calls[k]
              value == callMethod(call.method, call.env, response, contents)
          IN calls' = [calls EXCEPT ![k] =
                         IF call.method.body.kind = "chain"
                           THEN [call EXCEPT !.state = "resolved", !.response = response]
                           ELSE [call EXCEPT !.state = "returned", !.response = response,
                                             !.value = value]]
  /\ UNCHANGED <<documents, sdkDocuments, visitors, contents, pc>>
  /\ UNCHANGED opVars
  /\ UNCHANGED utilVars

\* other code runs before the rest of a parent body: it changes the response
ChangeResponse ==
  /\ \E k \in 1..Len(calls) :
       /\ calls[k].state = "resolved"
       /\ calls[k].response.data # "changed"
       /\ calls' = [calls EXCEPT ![k].response.data = "changed"]
  /\ UNCHANGED <<documents, sdkDocuments, visitors, contents, pc>>
  /\ UNCHANGED opVars
  /\ UNCHANGED utilVars

\* the rest of a parent body runs: the response and the scoped api are spread
ContinueMethod ==
  /\ \E k \in 1..Len(calls) :
       /\ calls[k].state = "resolved"
       /\ LET value == callMethod(calls[k].method, calls[k].env, calls[k].response, contents)
          IN calls' = [calls EXCEPT ![k].value = value,
                                    ![k].state = IF value.kind = "object"
                                                   THEN "returned" ELSE "thrown"]
  /\ UNCHANGED <<documents, sdkDocuments, visitors, contents, pc>>
  /\ UNCHANGED opVars
  /\ UNCHANGED utilVars

\* the caller lets go of the outcome of a call
ReleaseCall ==
  /\ \E k \in 1..Len(calls) :
       /\ calls[k].state \in {"returned", "thrown"}
       /\ calls' = SubSeq(calls, 1, k - 1) \o SubSeq(calls, k + 1, Len(calls))
  /\ UNCHANGED <<documents, sdkDocuments, visitors, contents, pc>>
  /\ UNCHANGED opVars
  /\ UNCHANGED utilVars

NextRun ==
  \/ CallApiMethod \/ CallChainedMethod
  \/ ResolveTransport \/ ChangeResponse \/ ContinueMethod \/ ReleaseCall

SpecRun == InitRun /\ [][NextRun]_vars

(***************************************************************************)
(* Properties of one classified operation and its generated method.        *)
(***************************************************************************)
FirstFieldName == getFirstFieldName(operation)

\* the parameters of the generated method, the trailing options parameter aside
RECURSIVE ParameterNames(_)
ParameterNames(args) ==
  IF args = << >> THEN << >>
  ELSE (IF Head(args).name = OPTIONS_NAME THEN << >> ELSE <<Head(args).name>>)
         \o ParameterNames(Tail(args))

HasIdParameter == \E i \in 1..Len(sdkMethod.args) : sdkMethod.args[i].name = ID_NAME

DeclaresVariableNamedId ==
  \E i \in 1..Len(operation.variableDefinitions) :
    operation.variableDefinitions[i].variable.value = ID_NAME

DeclaresOtherVariable ==
  \E i \in 1..Len(operation.variableDefinitions) :
    ~isIdVariable(operation.variableDefinitions[i])

\* C1: an operation with an id-variable whose name equals the name of its
\* first field selection is classified parent, with that field name as its
\* chain key, and so never child.
C1_ExactNameIsParent ==
  (/\ opPc # "parsed"
   /\ hasIdVariable(operation)
   /\ FirstFieldName # Undefined
   /\ operation.name = FirstFieldName)
  => (sdkNode.chainType = "parent" /\ sdkNode.chainKey = FirstFieldName)

C1_Witness ==
  /\ opPc = "classified"
  /\ hasIdVariable(operation)
  /\ operation.name = "team"
  /\ FirstFieldName = "team"
  /\ operation.selections[1].kind = "FragmentSpread"
  /\ sdkNode.chainType = "parent"

\* C2: an operation is classified child, with its first field name as chain
\* key, exactly when it is not a parent, has an id-variable and its name
\* starts with the first field name compared without regard to case.
C2_ChildIffCaseInsensitivePrefix ==
  opPc # "parsed" =>
    LET isChild == /\ sdkNode.chainType # "parent"
                   /\ hasIdVariable(operation)
                   /\ operation.name # Undefined
                   /\ FirstFieldName # Undefined
                   /\ startsWith(toLowerCase(operation.name), toLowerCase(FirstFieldName))
    IN /\ isChild => (sdkNode.chainType = "child" /\ sdkNode.chainKey = FirstFieldName)
       /\ ~isChild => sdkNode.chainType # "child"

\* C3: every classified operation has one of the three roles, and a chain
\* key (a non-empty string) exactly when its role is not root.
C3_ChainKeyIffNotRoot ==
  opPc # "parsed" =>
    /\ sdkNode.chainType \in {"root", "parent", "child"}
    /\ truthy(sdkNode.chainKey) <=> sdkNode.chainType # "root"

\* C5: the generated method has an id parameter exactly when the operation
\* has an id-variable and is root or parent; the method of a child never has
\* one, and the variables parameter of a child with further variables is
\* typed as the variables type without the id field.
C5_IdParameterIffIdVariableRootOrParent ==
  opPc = "generated" =>
    /\ HasIdParameter <=>
         (hasIdVariable(operation) /\ sdkNode.chainType \in {"root", "parent"})
    /\ sdkNode.chainType = "child" => ~HasIdParameter
    /\ (sdkNode.chainType = "child" /\ DeclaresOtherVariable) =>
         /\ ParameterNames(sdkMethod.args) = <<VARIABLE_NAME>>
         /\ sdkMethod.args[1].type =
              "Omit<" \o printNamespacedType(SdkOperation(sdkNode).operationVariablesTypes)
                \o ", 'id'>"

\* C6: the argument of the requester call is {id, ...variables} when the
\* operation has an id-variable and further variables, {id} when the
\* id-variable is its only variable, and the variables object when it has no
\* id-variable (a variable named id of another type is not an id-variable).
C6_RequesterArgsFollowIdVariable ==
  opPc = "generated" =>
    sdkMethod.body.callRequester.args =
      (IF hasIdVariable(operation)
         THEN (IF DeclaresOtherVariable THEN "{id, ...variables}" ELSE "{id}")
         ELSE "variables")

\* C7: the method of a child with chain key K is named by the operation
\* name without its leading K, first character lowercased; the method of a
\* parent or root is named by the operation name, first character
\* lowercased, nothing removed.
C7_MethodName ==
  (opPc = "generated" /\ operation.name # Undefined) =>
    /\ (sdkNode.chainType = "child" /\ truthy(sdkNode.chainKey)) =>
         /\ toLowerCase(SubSeq(operation.name, 1, Len(sdkNode.chainKey)))
              = toLowerCase(sdkNode.chainKey)
         /\ sdkMethod.name =
              lowerFirst(SubSeq(operation.name, Len(sdkNode.chainKey) + 1, Len(operation.name)))
    /\ sdkNode.chainType \in {"parent", "root"} =>
         /\ Len(sdkMethod.name) = Len(operation.name)
         /\ sdkMethod.name = lowerFirst(operation.name)

C7_Witness ==
  /\ opPc = "generated"
  /\ sdkNode.chainType = "child"
  /\ sdkNode.chainKey = "Team"
  /\ operation.name = "TeamIssues"
  /\ sdkMethod.name = "issues"

\* C8 as stated: the method of an operation without id-variable takes only
\* a variables parameter when the operation declares variables, and no
\* variables parameter when it declares none.
C8_VariablesParameterOnlyWhenDeclared ==
  (opPc = "generated" /\ ~hasIdVariable(operation)) =>
    /\ sdkNode.chainType = "root"
    /\ ParameterNames(sdkMethod.args) =
         (IF operation.variableDefinitions # << >> THEN <<VARIABLE_NAME>> ELSE << >>)

\* C8 amended: the method of an operation that declares no variable named
\* id (root) has exactly one variables parameter, typed as the variables
\* type of the operation, whether or not the operation declares variables.
C8_VariablesParameterAlways ==
  (opPc = "generated" /\ ~DeclaresVariableNamedId) =>
    /\ sdkNode.chainType = "root"
    /\ ParameterNames(sdkMethod.args) = <<VARIABLE_NAME>>
    /\ \A i \in 1..Len(sdkMethod.args) :
         sdkMethod.args[i].name = VARIABLE_NAME =>
           sdkMethod.args[i].type =
             printNamespacedType(SdkOperation(sdkNode).operationVariablesTypes)

C8_Witness ==
  /\ opPc = "generated"
  /\ operation.variableDefinitions = << >>
  /\ sdkNode.chainType = "root"
  /\ ParameterNames(sdkMethod.args) = <<VARIABLE_NAME>>

(***************************************************************************)
(* Properties of a generation pass and of the generated code at run time.  *)
(***************************************************************************)
\* every scope has its visitor, run over its operations
PassVisited == pc \in {"visit", "content"} /\ Len(visitors) = Len(Scopes)

\* every visitor has generated its content
PassGenerated == pc = "content" /\ Len(contents) = Len(visitors)

\* the places (visitor, position) at which a classified operation is accumulated
Accumulations(node) ==
  {vp \in UNION {{<<v, p>> : p \in 1..Len(visitors[v]._operationsToInclude)} :
                   v \in 1..Len(visitors)} :
     visitors[vp[1]]._operationsToInclude[vp[2]].node = node}

\* position of a classified operation in the document set
DocumentIndex(node) == CHOOSE i \in 1..Len(sdkDocuments) : sdkDocuments[i] = node

\* operations are accumulated once each, and emitted in first-encountered order
AccumulatedOnceInOrder ==
  /\ \A i \in 1..Len(sdkDocuments) : Cardinality(Accumulations(sdkDocuments[i])) = 1
  /\ \A v \in 1..Len(visitors) :
       \A p, q \in 1..Len(visitors[v]._operationsToInclude) :
         p < q => DocumentIndex(visitors[v]._operationsToInclude[p].node)
                    < DocumentIndex(visitors[v]._operationsToInclude[q].node)
  /\ \A c \in 1..Len(contents) :
       /\ Len(contents[c].operations) = Len(visitors[c]._operationsToInclude)
       /\ \A p \in 1..Len(contents[c].operations) :
            contents[c].operations[p].body.callRequester.document =
              printNamespacedDocument(visitors[c]._operationsToInclude[p].documentVariableName)

\* the chain key of the visitor that accumulated a classified operation
ScopeOf(node) ==
  visitors[(CHOOSE vp \in Accumulations(node) : TRUE)[1]]._chainKey

\* C4: the object a parent method with chain key K resolves to carries the
\* status, data and error of the transport response unchanged, and every
\* method of the K-scoped api, created with the id, requester and wrapper
\* the parent method was called with.
C4_ParentResultCarriesResponseAndApi ==
  \A k \in 1..Len(calls) :
    (calls[k].method.body.kind = "chain" /\ calls[k].state \in {"returned", "thrown"}) =>
      LET fields == calls[k].value.fields
          scoped == CHOOSE c \in 1..Len(contents) : contents[c].name = calls[k].method.body.api
      IN /\ calls[k].value.kind = "object"
         /\ {"status", "data", "error"} \subseteq DOMAIN fields
         /\ fields["status"] = PlainValue(calls[k].response.status)
         /\ fields["data"] = PlainValue(calls[k].response.data)
         /\ fields["error"] = PlainValue(calls[k].response.error)
         /\ \A p \in 1..Len(contents[scoped].operations) :
              LET name == contents[scoped].operations[p].name
              IN /\ name \in DOMAIN fields
                 /\ fields[name].kind = "method"
                 /\ fields[name].env[ID_NAME] = calls[k].env[ID_NAME]
                 /\ fields[name].env[REQUESTER_NAME] = calls[k].env[REQUESTER_NAME]
                 /\ fields[name].env[WRAPPER_NAME] = calls[k].env[WRAPPER_NAME]

C10_ScopesAreTheClassifiedChainKeys ==
  PassGenerated =>
    /\ {visitors[v]._chainKey : v \in 1..Len(visitors)} \ {Undefined}
         = {sdkDocuments[i].chainKey : i \in 1..Len(sdkDocuments)} \ {Undefined}
    /\ \A v, w \in 1..Len(visitors) : visitors[v]._chainKey = visitors[w]._chainKey => v = w
    /\ \A c \in 1..Len(contents) : \A p \in 1..Len(contents[c].operations) :
         contents[c].operations[p].body.kind = "chain" =>
           \E d \in 1..Len(contents) :
             /\ contents[d].name = contents[c].operations[p].body.api
             /\ truthy(visitors[d]._chainKey)
             /\ visitors[d]._chainKey = visitors[c]._operationsToInclude[p].node.chainKey

C10_Witness ==
  /\ PassGenerated
  /\ Len(visitors) = 3
  /\ \E p \in 1..Len(contents[1].operations) :
       /\ contents[1].operations[p].body.kind = "chain"
       /\ Len(contents[3].operations) = 0
       /\ contents[1].operations[p].body.api = contents[3].name

(***************************************************************************)
(* Properties of a built argument list.                                    *)
(***************************************************************************)
\* the descriptors handed over that are defined, in order
DefinedArgInput == SelectSeq(argInput, LAMBDA a : a # NoArg)

\* C11: a built argument list has exactly one entry for each name among the
\* descriptors handed over, equal to the last descriptor of that name; no two
\* entries share a name, and undefined descriptors are left out.
C11_LastDescriptorOfANameWins ==
  utilPc = "built" =>
    /\ \A i \in 1..Len(argList) : argList[i] # NoArg
    /\ \A i, j \in 1..Len(argList) : argList[i].name = argList[j].name => i = j
    /\ \A i \in 1..Len(argList) :
         \E k \in 1..Len(DefinedArgInput) :
           /\ DefinedArgInput[k] = argList[i]
           /\ \A l \in (k + 1)..Len(DefinedArgInput) :
                DefinedArgInput[l].name # argList[i].name
    /\ \A k \in 1..Len(DefinedArgInput) :
         Cardinality({i \in 1..Len(argList) : argList[i].name = DefinedArgInput[k].name}) = 1

C11_Witness ==
  /\ utilPc = "built"
  /\ Len(argInput) = 3
  /\ argInput[2] = NoArg
  /\ argInput[1].name = VARIABLE_NAME
  /\ argInput[3].name = VARIABLE_NAME
  /\ argInput[1] # argInput[3]
  /\ argList = <<argInput[3]>>

(***************************************************************************)
(* Properties of the type-name reducers.                                   *)
(***************************************************************************)
\* the reference is a list, or a list inside one non-null wrapper
IsListReference ==
  \/ Len(typeSource.wrappers) >= 1 /\ typeSource.wrappers[1] = "ListType"
  \/ /\ Len(typeSource.wrappers) >= 2
     /\ typeSource.wrappers[1] = "NonNullType"
     /\ typeSource.wrappers[2] = "ListType"

\* C12: reduceTypeName returns the innermost name of a reference however it
\* is wrapped in non-null and list wrappers, and the sentinel for a node of
\* unknown kind; reduceListType returns the innermost name for a list or a
\* non-null-wrapped list, and nothing for a bare named type, name or string.
C12_ReducersReturnInnermostName ==
  utilPc = "reduced" =>
    /\ typeSource.form # "Unknown" => typeName = typeSource.name
    /\ (typeSource.form = "Unknown" /\ typeSource.wrappers = << >>) =>
         typeName = "UNKNOWN_TYPE_NAME"
    /\ (typeSource.form # "Unknown" /\ IsListReference) => listType = typeSource.name
    /\ (typeSource.form # "Unknown" /\ typeSource.wrappers = << >>) => listType = Undefined

C12_Witness ==
  /\ utilPc = "reduced"
  /\ typeSource.form = "NamedType"
  /\ typeSource.wrappers = <<"NonNullType", "ListType", "NonNullType">>
  /\ typeName = "Int"
  /\ listType = "Int"

(***************************************************************************)
(* Properties of the identifiers a generated method refers to.             *)
(***************************************************************************)
ArgNamesOf(args) == {args[i].name : i \in 1..Len(args)}

\* the identifiers the body of a generated method refers to
BodyIdentifiers(method) ==
  RequesterArgIdentifiers(method.body.callRequester.args)
    \cup {method.body.callRequester.requester, method.body.callRequester.wrapper,
          method.body.callRequester.options}
    \cup {method.body.apiArgs[i] : i \in 1..Len(method.body.apiArgs)}

\* every identifier of every body is a parameter of its method or of the api
\* function around it
IdentifiersBound ==
  \A c \in 1..Len(contents) : \A p \in 1..Len(contents[c].operations) :
    BodyIdentifiers(contents[c].operations[p])
      \subseteq ArgNamesOf(contents[c].operations[p].args) \cup ArgNamesOf(contents[c].args)

\* C13: every identifier a generated body refers to is a parameter of the
\* method or of the api function around it: a root or parent method that uses
\* id has its own id parameter, a child method that uses id sits in a scoped
\* api whose first parameter is id, and a body that uses variables has a
\* variables parameter.
C13_BodyIdentifiersAreParameters ==
  PassGenerated =>
    /\ IdentifiersBound
    /\ \A c \in 1..Len(contents) : \A p \in 1..Len(contents[c].operations) :
         LET method == contents[c].operations[p]
             node == visitors[c]._operationsToInclude[p].node
             used == BodyIdentifiers(method)
         IN /\ (ID_NAME \in used /\ node.chainType \in {"root", "parent"}) =>
                 ID_NAME \in ArgNamesOf(method.args)
            /\ (ID_NAME \in used /\ node.chainType = "child") =>
                 (contents[c].args # << >> /\ contents[c].args[1].name = ID_NAME)
            /\ VARIABLE_NAME \in used => VARIABLE_NAME \in ArgNamesOf(method.args)

C13_Witness ==
  /\ PassGenerated
  /\ Len(contents) = 2
  /\ contents[2].args[1].name = ID_NAME
  /\ \E p \in 1..Len(contents[2].operations) :
       /\ visitors[2]._operationsToInclude[p].node.chainType = "child"
       /\ ID_NAME \in BodyIdentifiers(contents[2].operations[p])
       /\ VARIABLE_NAME \in BodyIdentifiers(contents[2].operations[p])
       /\ ID_NAME \notin ArgNamesOf(contents[2].operations[p].args)
  /\ \E p \in 1..Len(contents[1].operations) :
       /\ contents[1].operations[p].body.kind = "chain"
       /\ ID_NAME \in ArgNamesOf(contents[1].operations[p].args)
  /\ \E p \in 1..Len(contents[1].operations) :
       /\ visitors[1]._operationsToInclude[p].node.chainType = "root"
       /\ ~hasIdVariable(visitors[1]._operationsToInclude[p].node)
       /\ ID_NAME \in BodyIdentifiers(contents[1].operations[p])
       /\ ID_NAME \in ArgNamesOf(contents[1].operations[p].args)

====
